---- MODULE Spec2Model ----
(***************************************************************************)
(* Model of main.go: the dataset reorganiser.  scanAllLabelled walks       *)
(* "dataset" and converts every .xml annotation (mode A: rewritten         *)
(* annotation + image under output/<class>/, mode B: yolo label + image     *)
(* under output/yolo/); scanImages then walks "dataset/images" and copies   *)
(* every path that is not in copiedImages.                                  *)
(*                                                                         *)
(* Strings are sequences of one-character strings, so that ToLower,        *)
(* Contains, Base, Ext, Itoa, Atoi and the %f rendering are computed the    *)
(* way the Go library computes them.                                        *)
(***************************************************************************)
EXTENDS Integers, Sequences, FiniteSets, TLC

VARIABLES
    tree,          \* the input tree: the entries of WalkDir("dataset"), in walk order
    content,       \* annotation path -> the record xml.Decode leaves in labelledXML
    yolo,          \* the argument of scanAllLabelled (main passes true)
    pc,            \* where main is: "labelled", "images", "done", "fatal"; "call" in the function specifications
    pos,           \* index of the next entry of the walk in progress
    classCount,    \* GunCount .. UnknownCount, by class
    TotalCount,    \* TotalCount
    copiedImages,  \* copiedImages
    output,        \* the output tree: path -> what was written there
    events,        \* history: every file operation and callback outcome, in order
    fails,         \* history: number of injected I/O failures so far
    arg,           \* function specifications: the argument
    res            \* function specifications: the result

vars == <<tree, content, yolo, pc, pos, classCount, TotalCount, copiedImages,
          output, events, fails, arg, res>>

(***************************************************************************)
(* Bounds.                                                                 *)
(***************************************************************************)
\* most I/O failures injected in one run
MaxFail == 1
\* most pieces a path of SpecClassify is made of
MaxPieces == 3

(***************************************************************************)
(* Strings.                                                                *)
(***************************************************************************)
UPPER == <<"A", "B", "C", "D", "E", "F", "G", "H", "I", "J", "K", "L", "M",
           "N", "O", "P", "Q", "R", "S", "T", "U", "V", "W", "X", "Y", "Z">>
LOWER == <<"a", "b", "c", "d", "e", "f", "g", "h", "i", "j", "k", "l", "m",
           "n", "o", "p", "q", "r", "s", "t", "u", "v", "w", "x", "y", "z">>

\* strings.ToLower
ToLower(s) ==
    [i \in 1..Len(s) |->
        IF \E k \in 1..Len(UPPER) : UPPER[k] = s[i]
        THEN LOWER[CHOOSE k \in 1..Len(UPPER) : UPPER[k] = s[i]]
        ELSE s[i]]

\* strings.Contains
Contains(s, sub) ==
    \E i \in 0..(Len(s) - Len(sub)) : SubSeq(s, i + 1, i + Len(sub)) = sub

\* filepath.Join of two clean elements
SLASH == <<"/">>
Join2(a, b) == a \o SLASH \o b

(***************************************************************************)
(* Classes, their keywords and their yolo indices.                         *)
(***************************************************************************)
GUN == <<"g", "u", "n">>
KNIFE == <<"k", "n", "i", "f", "e">>
WRENCH == <<"w", "r", "e", "n", "c", "h">>
FORK == <<"f", "o", "r", "k">>
SCREWDRIVER == <<"s", "c", "r", "e", "w", "d", "r", "i", "v", "e", "r">>
UNKNOWN == <<"u", "n", "k", "n", "o", "w", "n">>

Classes == {GUN, KNIFE, WRENCH, FORK, SCREWDRIVER, UNKNOWN}

knifeIndex == 0
forkIndex == 1
gunIndex == 2
wrenchIndex == 3
screwdriverIndex == 4

\* a plausible slip: the index chain tests knife before gun
getIndexFromPathKnifeFirst(path) ==
    LET p == ToLower(path) IN
    IF Contains(p, KNIFE) THEN knifeIndex
    ELSE IF Contains(p, GUN) THEN gunIndex
    ELSE IF Contains(p, WRENCH) THEN wrenchIndex
    ELSE IF Contains(p, FORK) THEN forkIndex
    ELSE IF Contains(p, SCREWDRIVER) THEN screwdriverIndex
    ELSE -1

getIndexFromPath(path) ==
    LET p == ToLower(path) IN
    IF Contains(p, GUN) THEN gunIndex
    ELSE IF Contains(p, KNIFE) THEN knifeIndex
    ELSE IF Contains(p, WRENCH) THEN wrenchIndex
    ELSE IF Contains(p, FORK) THEN forkIndex
    ELSE IF Contains(p, SCREWDRIVER) THEN screwdriverIndex
    ELSE -1

\* The class returned; the counter returned with it is classCount[class].
getClassFromPath(path) ==
    LET p == ToLower(path) IN
    IF Contains(p, GUN) THEN GUN
    ELSE IF Contains(p, KNIFE) THEN KNIFE
    ELSE IF Contains(p, WRENCH) THEN WRENCH
    ELSE IF Contains(p, FORK) THEN FORK
    ELSE IF Contains(p, SCREWDRIVER) THEN SCREWDRIVER
    ELSE UNKNOWN

(***************************************************************************)
(* Numbers and paths.                                                      *)
(***************************************************************************)
DIGITS == <<"0", "1", "2", "3", "4", "5", "6", "7", "8", "9">>

RECURSIVE NatStr(_)
NatStr(n) ==
    IF n < 10 THEN <<DIGITS[n + 1]>>
    ELSE NatStr(n \div 10) \o <<DIGITS[(n % 10) + 1]>>

\* strconv.Itoa
Itoa(n) == IF n < 0 THEN <<"-">> \o NatStr(-n) ELSE NatStr(n)

IsDigit(c) == \E k \in 1..Len(DIGITS) : DIGITS[k] = c
DigitVal(c) == (CHOOSE k \in 1..Len(DIGITS) : DIGITS[k] = c) - 1

RECURSIVE DigitsVal(_)
DigitsVal(s) ==
    IF Len(s) = 0 THEN 0
    ELSE 10 * DigitsVal(SubSeq(s, 1, Len(s) - 1)) + DigitVal(s[Len(s)])

\* strconv.Atoi: an optional sign and decimal digits; (0, err) on anything else.
\* The values of the model are far from the int range.
Atoi(s) ==
    LET signed == Len(s) > 0 /\ s[1] \in {"+", "-"}
        body == IF signed THEN Tail(s) ELSE s
        ok == Len(body) > 0 /\ \A i \in 1..Len(body) : IsDigit(body[i])
    IN  IF ok
        THEN [val |-> IF signed /\ s[1] = "-" THEN -DigitsVal(body) ELSE DigitsVal(body),
              err |-> FALSE]
        ELSE [val |-> 0, err |-> TRUE]

\* index of the last c in s, 0 when there is none
LastIndex(s, c) ==
    IF \E i \in 1..Len(s) : s[i] = c
    THEN CHOOSE i \in 1..Len(s) : s[i] = c /\ \A j \in (i + 1)..Len(s) : s[j] # c
    ELSE 0

RECURSIVE TrimSlashes(_)
TrimSlashes(s) ==
    IF Len(s) > 0 /\ s[Len(s)] = "/" THEN TrimSlashes(SubSeq(s, 1, Len(s) - 1)) ELSE s

\* filepath.Base
Base(s) ==
    IF Len(s) = 0 THEN <<".">>
    ELSE LET t == TrimSlashes(s) IN
         IF Len(t) = 0 THEN SLASH ELSE SubSeq(t, LastIndex(t, "/") + 1, Len(t))

\* filepath.Ext: from the last dot of the last element
Ext(s) ==
    LET d == LastIndex(s, ".") IN
    IF d > LastIndex(s, "/") THEN SubSeq(s, d, Len(s)) ELSE <<>>

\* strings.ReplaceAll(p, "\\", "/")
ReplaceBackslashes(p) == [i \in 1..Len(p) |-> IF p[i] = "\\" THEN "/" ELSE p[i]]

(***************************************************************************)
(* The input tree.  An entry is a path and whether it is a directory; the  *)
(* tree lists the entries of WalkDir("dataset") in walk order (lexical,    *)
(* a directory before its children).  The trees of the model are the       *)
(* sub-trees of Universe: an entry with opt = {} is always there, another   *)
(* one when the chosen set of optional files meets its opt.                 *)
(***************************************************************************)
DATASET == <<"d", "a", "t", "a", "s", "e", "t">>
IMAGES == Join2(DATASET, <<"i", "m", "a", "g", "e", "s">>)
ALLIMAGES == Join2(DATASET, <<"a", "l", "l", "i", "m", "a", "g", "e", "s">>)
LABELS == Join2(DATASET, <<"l", "a", "b", "e", "l", "s">>)

A_JPG == <<"a", ".", "j", "p", "g">>
C_XML == <<"c", ".", "x", "m", "l">>
L_XML == <<"1", ".", "x", "m", "l">>

AllA == Join2(ALLIMAGES, A_JPG)
AllK == Join2(ALLIMAGES, <<"k">>)
AllKA == Join2(AllK, A_JPG)
ImgFork == Join2(IMAGES, FORK)
ImgForkA == Join2(ImgFork, A_JPG)
ImgGun == Join2(IMAGES, GUN)
ImgGunA == Join2(ImgGun, A_JPG)
ImgGunC == Join2(ImgGun, C_XML)
ImgZ == Join2(IMAGES, <<"z">>)
ImgZA == Join2(ImgZ, A_JPG)
Label1 == Join2(LABELS, L_XML)

Entry(p, dir, opt) == [path |-> p, isDir |-> dir, opt |-> opt]

Universe == <<
    Entry(DATASET, TRUE, {}),
    Entry(ALLIMAGES, TRUE, {}),
    Entry(AllA, FALSE, {AllA}),
    Entry(AllK, TRUE, {AllKA}),
    Entry(AllKA, FALSE, {AllKA}),
    Entry(IMAGES, TRUE, {}),
    Entry(ImgFork, TRUE, {ImgForkA}),
    Entry(ImgForkA, FALSE, {ImgForkA}),
    Entry(ImgGun, TRUE, {ImgGunA, ImgGunC}),
    Entry(ImgGunA, FALSE, {ImgGunA}),
    Entry(ImgGunC, FALSE, {ImgGunC}),
    Entry(ImgZ, TRUE, {ImgZA}),
    Entry(ImgZA, TRUE, {ImgZA}),
    Entry(LABELS, TRUE, {}),
    Entry(Label1, FALSE, {Label1}) >>

Optional == {AllA, AllKA, ImgForkA, ImgGunA, ImgGunC, ImgZA, Label1}

TreeOf(chosen) ==
    LET present(e) == e.opt = {} \/ e.opt \cap chosen # {}
        kept == SelectSeq(Universe, present)
    IN  [i \in 1..Len(kept) |-> [path |-> kept[i].path, isDir |-> kept[i].isDir]]

\* whether path p is root or lies under it
Under(root, p) ==
    \/ p = root
    \/ Len(p) > Len(root) /\ SubSeq(p, 1, Len(root) + 1) = root \o SLASH

\* the entries filepath.WalkDir(root, fn) hands to fn, in order
WalkDir(root) == SelectSeq(tree, LAMBDA e : Under(root, e.path))

(***************************************************************************)
(* findCorrespondingFile.                                                  *)
(***************************************************************************)
\* a plausible slip: the walk stops at the first match
RECURSIVE walkerFirst(_, _, _)
walkerFirst(entries, baseName, found) ==
    IF Len(entries) = 0 \/ Len(found) # 0 THEN found
    ELSE LET d == Head(entries) IN
         walkerFirst(Tail(entries), baseName,
                     IF ~d.isDir /\ Base(d.path) = baseName THEN d.path ELSE found)

\* the walker closure, folded over a walk: found is assigned at every match
RECURSIVE walker(_, _, _)
walker(entries, baseName, found) ==
    IF Len(entries) = 0 THEN found
    ELSE LET d == Head(entries) IN
         walker(Tail(entries), baseName,
                IF ~d.isDir /\ Base(d.path) = baseName THEN d.path ELSE found)

findCorrespondingFile(p) ==
    LET baseName == Base(ReplaceBackslashes(p))
        found == walker(WalkDir(IMAGES), baseName, <<>>)
    IN  IF Len(found) = 0 THEN walker(WalkDir(ALLIMAGES), baseName, found) ELSE found

(***************************************************************************)
(* Annotation records: the fields of labelledXML the program reads or      *)
(* rewrites, each the text xml.Decode stored.                              *)
(***************************************************************************)
GeoFields == {"Xmin", "Ymin", "Xmax", "Ymax", "Width", "Height"}

\* "C:\data\Knife\a.jpg": backslashes, upper case, the keyword knife
RecKnifeA == <<"C", ":", "\\", "d", "a", "t", "a", "\\", "K", "n", "i", "f", "e",
               "\\", "a", ".", "j", "p", "g">>
\* "imgs/c.xml": no keyword, an image whose extension is .xml
RecImgsC == <<"i", "m", "g", "s", "/", "c", ".", "x", "m", "l">>
\* "b.jpg": no file of the universe has this name
RecB == <<"b", ".", "j", "p", "g">>
\* "dataset/images/gun/": a trailing separator, the name of a directory
RecGunDir == ImgGun \o SLASH

Record(p) ==
    [Path |-> p, Filename |-> Base(ReplaceBackslashes(p)), Name |-> <<"o", "b", "j">>,
     Width |-> <<"1", "0", "0">>, Height |-> <<"5", "0">>,
     Xmin |-> <<"1", "0">>, Ymin |-> <<"1", "0">>,
     Xmax |-> <<"5", "0">>, Ymax |-> <<"3", "0">>]

\* what Decode leaves of malformed markup: every field empty
EmptyRecord ==
    [Path |-> <<>>, Filename |-> <<>>, Name |-> <<>>, Width |-> <<>>, Height |-> <<>>,
     Xmin |-> <<>>, Ymin |-> <<>>, Xmax |-> <<>>, Ymax |-> <<>>]

\* a record one of whose geometry fields is not a number
BadRecord(f) == [Record(RecKnifeA) EXCEPT ![f] = <<"a", "b", "c">>]

Contents ==
    {Record(RecKnifeA), Record(RecImgsC), EmptyRecord} \cup {BadRecord(f) : f \in GeoFields}

\* the geometry fields of a record that strconv.Atoi rejects
Unparseable(data) == {f \in GeoFields : Atoi(data[f]).err}

(***************************************************************************)
(* The box normaliser of mode B (lines 256-280).  A float64 is modelled    *)
(* by the rational num/den it holds; den = 0 stands for 1.0/0 = +Inf.  The *)
(* widths of the model are below 128, where the float64 product rounds to   *)
(* the same six decimals as the rational.                                   *)
(***************************************************************************)
Abs(n) == IF n < 0 THEN -n ELSE n

\* six digits, zero-padded
Pad6(n) ==
    LET s == NatStr(n) IN [i \in 1..(6 - Len(s)) |-> "0"] \o s

\* fmt.Sprintf("%f", num/den)
SprintfF(num, den) ==
    IF den = 0
    THEN IF num > 0 THEN <<"+", "I", "n", "f">>
         ELSE IF num < 0 THEN <<"-", "I", "n", "f">>
         ELSE <<"N", "a", "N">>
    ELSE LET neg == (num < 0) # (den < 0)
             scaled == Abs(num) * 1000000
             d == Abs(den)
             q == scaled \div d
             r == scaled % d
             micro == IF 2 * r > d \/ (2 * r = d /\ q % 2 = 1) THEN q + 1 ELSE q
         IN  (IF neg THEN <<"-">> ELSE <<>>)
                 \o NatStr(micro \div 1000000) \o <<".">> \o Pad6(micro % 1000000)

\* a plausible slip: the centre without the - 1
centreNoOffset(lo, hi) == [num |-> lo + hi, den |-> 2]

\* (float64(lo+hi))/2.0 - 1
centre(lo, hi) == [num |-> lo + hi - 2, den |-> 2]

\* the label line and the err the code tests: that of the last Atoi alone
yoloLine(classIndex, data) ==
    LET xMax == Atoi(data.Xmax)
        xMin == Atoi(data.Xmin)
        yMax == Atoi(data.Ymax)
        yMin == Atoi(data.Ymin)
        width == Atoi(data.Width)
        height == Atoi(data.Height)
        x == centre(xMin.val, xMax.val)
        y == centre(yMin.val, yMax.val)
        w == xMax.val - xMin.val
        h == yMax.val - yMin.val
        xStr == SprintfF(x.num, x.den * width.val)
        wStr == SprintfF(w, width.val)
        yStr == SprintfF(y.num, y.den * height.val)
        hStr == SprintfF(h, height.val)
        SP == <<" ">>
    IN  [err |-> height.err,
         line |-> Itoa(classIndex) \o SP \o xStr \o SP \o yStr \o SP \o wStr \o SP \o hStr]

(***************************************************************************)
(* File operations.  The mutable state a callback works on is carried in a *)
(* record s: cc (the class counters), tc (TotalCount), ci (copiedImages),   *)
(* out (the output tree), ev (the history), fails; err says whether the     *)
(* callback returns an error.  io is the I/O failure the environment        *)
(* injects into this callback, if any:                                      *)
(*   "open"   os.Open of the annotation fails (readLabelled)                *)
(*   "write"  ioutil.WriteFile fails                                        *)
(*   "stat"   os.Stat, os.Open or os.Create fails inside copy               *)
(*   "trunc"  io.Copy fails inside copy, after the destination was created  *)
(***************************************************************************)
OUTPUT == <<"o", "u", "t", "p", "u", "t">>
YOLO == <<"y", "o", "l", "o">>
DOT_JPG == <<".", "j", "p", "g">>
DOT_TXT == <<".", "t", "x", "t">>
DOT_XML == <<".", "x", "m", "l">>

IOChoices == {"none", "open", "stat", "trunc", "write"}

Event(op, pass, src, dst, ok) == [op |-> op, pass |-> pass, src |-> src, dst |-> dst, ok |-> ok]

\* a file of the output tree: kind "image" (written by copy) or "label" (written by
\* WriteFile), the file it was made from, the annotation being processed (<<>> in
\* the sweep), its text, and whether it was written to the end
File(kind, src, ann, body, complete) ==
    [kind |-> kind, src |-> src, ann |-> ann, body |-> body, complete |-> complete]

Put(out, dst, file) == [p \in DOMAIN out \cup {dst} |-> IF p = dst THEN file ELSE out[p]]

\* os.Stat(src).Mode().IsRegular(): the files of the tree are regular, its directories are not
IsRegular(src) == \E i \in 1..Len(tree) : tree[i].path = src /\ ~tree[i].isDir

\* createOutputDir: the directory's path (os.MkdirAll is idempotent)
createOutputDir(dir) == Join2(OUTPUT, dir)

getOutputFileName(class, count, path) ==
    Join2(createOutputDir(class), class \o <<"_">> \o Itoa(count) \o Ext(path))

\* a plausible slip: the source is never recorded in copiedImages
copyNoAppend(s, src, dst, io, pass, ann) ==
    IF ~IsRegular(src) \/ io = "stat"
    THEN [s EXCEPT !.ev = Append(@, Event("copy", pass, src, dst, FALSE)),
                   !.fails = IF IsRegular(src) THEN @ + 1 ELSE @]
    ELSE [s EXCEPT !.out = Put(@, dst, File("image", src, ann, <<>>, io # "trunc")),
                   !.ev = Append(@, Event("copy", pass, src, dst, io # "trunc")),
                   !.fails = IF io = "trunc" THEN @ + 1 ELSE @]

\* copy(src, dst); its results are dropped by every caller
copy(s, src, dst, io, pass, ann) ==
    IF ~IsRegular(src) \/ io = "stat"
    THEN [s EXCEPT !.ev = Append(@, Event("copy", pass, src, dst, FALSE)),
                   !.fails = IF IsRegular(src) THEN @ + 1 ELSE @]
    ELSE [s EXCEPT !.out = Put(@, dst, File("image", src, ann, <<>>, io # "trunc")),
                   !.ci = Append(@, src),
                   !.ev = Append(@, Event("copy", pass, src, dst, io # "trunc")),
                   !.fails = IF io = "trunc" THEN @ + 1 ELSE @]

\* ioutil.WriteFile(dst, body): s.err is its error
WriteFile(s, src, dst, body, io, pass) ==
    IF io = "write"
    THEN [s EXCEPT !.ev = Append(@, Event("write", pass, src, dst, FALSE)),
                   !.fails = @ + 1, !.err = TRUE]
    ELSE [s EXCEPT !.out = Put(@, dst, File("label", src, src, body, TRUE)),
                   !.ev = Append(@, Event("write", pass, src, dst, TRUE))]

\* readLabelled: (pointer, error).  The error of Decode is dropped and the
\* pointer returned after a successful Open is never nil.
readLabelled(filename, io) ==
    IF io = "open"
    THEN [nil |-> TRUE, data |-> EmptyRecord, err |-> TRUE]
    ELSE [nil |-> FALSE, data |-> content[filename], err |-> FALSE]

(***************************************************************************)
(* The callback of scanAllLabelled on one .xml entry (lines 197-292).      *)
(***************************************************************************)
\* mode A, lines 223-251
rewrite(s, path, data, class, foundImage, io) ==
    LET outputFile == getOutputFileName(class, s.cc[class], Ext(foundImage))
        xmlOutFile == getOutputFileName(class, s.cc[class], Ext(path))
        \* both files lie in output/<class>, so filepath.Rel gives "." and the join the base name
        body == [data EXCEPT !.Path = Base(outputFile), !.Filename = Base(outputFile),
                             !.Name = class]
        w == WriteFile(s, path, xmlOutFile, body, io, "labelled")
    IN  IF w.err THEN w
        ELSE LET c == copy(w, foundImage, outputFile, io, "labelled", path)
             IN  [c EXCEPT !.cc[class] = @ + 1]

\* mode B, lines 253-286
normalize(s, path, data, classIndex, foundImage, io) ==
    LET outputFile == Join2(createOutputDir(YOLO), Itoa(s.tc) \o DOT_JPG)
        outputYoloFile == Join2(createOutputDir(YOLO), Itoa(s.tc) \o DOT_TXT)
        conv == yoloLine(classIndex, data)
    IN  IF conv.err
        THEN [s EXCEPT !.ev = Append(@, Event("atoi", "labelled", path, <<>>, FALSE)),
                       !.err = TRUE]
        ELSE LET w == WriteFile(s, path, outputYoloFile, conv.line, io, "labelled")
             IN  IF w.err THEN w
                 ELSE LET c == copy(w, foundImage, outputFile, io, "labelled", path)
                      IN  [c EXCEPT !.tc = @ + 1]

labelledCallback(s, path, io) ==
    LET r == readLabelled(path, io) IN
    IF r.err
    THEN [s EXCEPT !.ev = Append(@, Event("open", "labelled", path, <<>>, FALSE)),
                   !.fails = @ + 1, !.err = TRUE]
    ELSE IF r.nil
    THEN [s EXCEPT !.ev = Append(@, Event("nil", "labelled", path, <<>>, FALSE)),
                   !.err = TRUE]
    ELSE
        LET data == r.data
            s1 == [s EXCEPT !.ev = Append(@, Event("open", "labelled", path, <<>>, TRUE))]
            c1 == getClassFromPath(path)
            class == IF c1 = UNKNOWN THEN getClassFromPath(data.Path) ELSE c1
            i1 == getIndexFromPath(path)
            classIndex == IF i1 = -1 THEN getIndexFromPath(data.Path) ELSE i1
            foundImage == findCorrespondingFile(data.Path)
        IN  IF Len(foundImage) = 0 THEN s1
            ELSE IF ~yolo THEN rewrite(s1, path, data, class, foundImage, io)
            ELSE normalize(s1, path, data, classIndex, foundImage, io)

(***************************************************************************)
(* The callback of scanImages on one entry (lines 144-150).                *)
(***************************************************************************)
imagesCallback(s, path, io) ==
    IF \E i \in 1..Len(s.ci) : s.ci[i] = path THEN s
    ELSE LET class == getClassFromPath(path)
             outputFile == getOutputFileName(class, s.cc[class], Ext(path))
             c == copy(s, path, outputFile, io, "images", <<>>)
         IN  [c EXCEPT !.cc[class] = @ + 1]

(***************************************************************************)
(* The program.                                                            *)
(***************************************************************************)
Cur == [cc |-> classCount, tc |-> TotalCount, ci |-> copiedImages, out |-> output,
        ev |-> events, fails |-> fails, err |-> FALSE]

Store(s) ==
    /\ classCount' = s.cc
    /\ TotalCount' = s.tc
    /\ copiedImages' = s.ci
    /\ output' = s.out
    /\ events' = s.ev
    /\ fails' = s.fails

\* the optional files a pipeline run draws its tree from
PipelineFiles == {AllA, ImgForkA, ImgGunA}
\* the places an annotation may lie at
AnnotationSlots == {ImgGunC, Label1}

Init ==
    /\ \E files \in SUBSET PipelineFiles, slots \in SUBSET AnnotationSlots :
          /\ tree = TreeOf(files \cup slots)
          /\ content \in [slots -> Contents]
    /\ yolo \in BOOLEAN
    /\ pc = "labelled"
    /\ pos = 1
    /\ classCount = [c \in Classes |-> 0]
    /\ TotalCount = 0
    /\ copiedImages = <<>>
    /\ output = <<>>
    /\ events = <<>>
    /\ fails = 0
    /\ arg = <<>>
    /\ res = <<>>

\* scanAllLabelled: the walk hands the next entry of "dataset" to the callback;
\* an error returned ends the walk and log.Fatal ends the program
LabelledStep ==
    /\ pc = "labelled"
    /\ pos <= Len(WalkDir(DATASET))
    /\ LET d == WalkDir(DATASET)[pos] IN
       IF Ext(Base(d.path)) # DOT_XML
       THEN /\ pos' = pos + 1
            /\ UNCHANGED <<pc, classCount, TotalCount, copiedImages, output, events, fails>>
       ELSE \E io \in IOChoices :
               /\ io # "none" => fails < MaxFail
               /\ LET s == labelledCallback(Cur, d.path, io) IN
                  /\ Store(s)
                  /\ pc' = IF s.err THEN "fatal" ELSE pc
                  /\ pos' = IF s.err THEN pos ELSE pos + 1
    /\ UNCHANGED <<tree, content, yolo, arg, res>>

\* the walk of "dataset" is over: main goes on to scanImages
LabelledDone ==
    /\ pc = "labelled"
    /\ pos > Len(WalkDir(DATASET))
    /\ pc' = "images"
    /\ pos' = 1
    /\ UNCHANGED <<tree, content, yolo, classCount, TotalCount, copiedImages, output,
                   events, fails, arg, res>>

\* scanImages: the walk hands the next entry of "dataset/images" to the
\* callback, which returns nil whatever happened
ImagesStep ==
    /\ pc = "images"
    /\ pos <= Len(WalkDir(IMAGES))
    /\ \E io \in {"none", "stat", "trunc"} :
          /\ io # "none" => fails < MaxFail
          /\ Store(imagesCallback(Cur, WalkDir(IMAGES)[pos].path, io))
    /\ pos' = pos + 1
    /\ UNCHANGED <<tree, content, yolo, pc, arg, res>>

ImagesDone ==
    /\ pc = "images"
    /\ pos > Len(WalkDir(IMAGES))
    /\ pc' = "done"
    /\ UNCHANGED <<tree, content, yolo, pos, classCount, TotalCount, copiedImages, output,
                   events, fails, arg, res>>

Next == LabelledStep \/ LabelledDone \/ ImagesStep \/ ImagesDone

Spec == Init /\ [][Next]_vars

(***************************************************************************)
(* The pure functions, each called once on an argument drawn from a        *)
(* bounded set.  The variables of the pipeline stay as constructed.        *)
(***************************************************************************)
Idle ==
    /\ content = <<>>
    /\ yolo = TRUE
    /\ pos = 1
    /\ classCount = [c \in Classes |-> 0]
    /\ TotalCount = 0
    /\ copiedImages = <<>>
    /\ output = <<>>
    /\ events = <<>>
    /\ fails = 0
    /\ res = <<>>

Return(r) ==
    /\ pc = "call"
    /\ pc' = "return"
    /\ res' = r
    /\ UNCHANGED <<tree, content, yolo, pos, classCount, TotalCount, copiedImages,
                   output, events, fails, arg>>

\* ---- getClassFromPath and getIndexFromPath
Pieces == {
    <<"G", "u", "n">>, <<"g", "u">>, <<"n">>,
    <<"K", "N", "I", "F", "E">>, <<"k", "n", "i">>, <<"f", "e">>,
    WRENCH, <<"F", "o", "r", "k">>, SCREWDRIVER, SLASH }

RECURSIVE PathsOf(_)
PathsOf(n) ==
    IF n = 0 THEN {<<>>}
    ELSE LET shorter == PathsOf(n - 1) IN
         shorter \cup {p \o q : p \in shorter, q \in Pieces}

InitClassify ==
    /\ Idle
    /\ tree = <<>>
    /\ pc = "call"
    /\ arg \in PathsOf(MaxPieces)

Classify == Return([class |-> getClassFromPath(arg), index |-> getIndexFromPath(arg)])

SpecClassify == InitClassify /\ [][Classify]_vars

\* ---- findCorrespondingFile
RecPaths == {RecKnifeA, RecImgsC, RecB, RecGunDir, <<>>}

InitResolve ==
    /\ Idle
    /\ \E files \in SUBSET (Optional \ {Label1}) : tree = TreeOf(files)
    /\ pc = "call"
    /\ arg \in RecPaths

Resolve == Return(findCorrespondingFile(arg))

SpecResolve == InitResolve /\ [][Resolve]_vars

\* ---- yoloLine
N0 == <<"0">>
N3 == <<"3">>
N7 == <<"7">>
N10 == <<"1", "0">>
N30 == <<"3", "0">>
N50 == <<"5", "0">>
N51 == <<"5", "1">>
N100 == <<"1", "0", "0">>
NEG4 == <<"-", "4">>
ABC == <<"a", "b", "c">>

Geometries ==
    [Xmin : {N10, N0, ABC}, Xmax : {N50, N51}, Ymin : {N10, NEG4}, Ymax : {N30},
     Width : {N100, N0, N3}, Height : {N50, N7, ABC}]

InitYolo ==
    /\ Idle
    /\ tree = <<>>
    /\ pc = "call"
    /\ arg \in [classIndex : -1..4, data : Geometries]

Normalize == Return(yoloLine(arg.classIndex, arg.data))

SpecYolo == InitYolo /\ [][Normalize]_vars

(***************************************************************************)
(* Properties.                                                             *)
(***************************************************************************)
Ev(op, pass) == {i \in 1..Len(events) : events[i].op = op /\ events[i].pass = pass}

\* the non-directory entries of the tree under a root
FilesUnder(root) ==
    {tree[i].path : i \in {k \in 1..Len(tree) : ~tree[k].isDir /\ Under(root, tree[k].path)}}

\* the images an annotation resolved to and handed to copy
Referenced == {events[i].src : i \in Ev("copy", "labelled")}

\* the output paths that hold a copy of the file src
CopiesOf(src) ==
    {d \in DOMAIN output : output[d].kind = "image" /\ output[d].src = src}

\* the image copied during the annotation pass is not copied again by the sweep
NotCopiedAgain ==
    \A i \in Ev("copy", "labelled"), j \in Ev("copy", "images") :
        events[i].ok => events[j].src # events[i].src

\* C1 as claimed: after the two passes, an image copied during the annotation
\* pass is not copied again by the sweep, and every image that no annotation
\* references appears exactly once in the output tree.
C1_UnreferencedExactlyOnce ==
    pc = "done" =>
        /\ NotCopiedAgain
        /\ \A f \in (FilesUnder(IMAGES) \cup FilesUnder(ALLIMAGES)) \ Referenced :
              Cardinality(CopiesOf(f)) = 1

\* C1 as amended: an image copied during the annotation pass is not copied
\* again by the sweep; after the two passes, every file under dataset/images
\* that no annotation resolved to was handed to copy exactly once by the sweep
\* and appears in the output tree exactly once when that copy succeeded and
\* at most once when it failed; a file under dataset/allimages is never swept.
C1_SweepCopiesOncePrimaryOnly ==
    /\ NotCopiedAgain
    /\ \A j \in Ev("copy", "images") : ~Under(ALLIMAGES, events[j].src)
    /\ pc = "done" =>
          \A f \in FilesUnder(IMAGES) \ Referenced :
              LET tries == {j \in Ev("copy", "images") : events[j].src = f} IN
              /\ Cardinality(tries) = 1
              /\ Cardinality(CopiesOf(f)) <= 1
              /\ (\A j \in tries : events[j].ok) => Cardinality(CopiesOf(f)) = 1

\* C1 witness: a finished run in which the sweep skipped an image the
\* annotation pass had copied and copied an image no annotation resolved to
C1_Witness ==
    /\ pc = "done"
    /\ \E i \in Ev("copy", "labelled") : events[i].ok /\ Under(IMAGES, events[i].src)
    /\ \E f \in FilesUnder(IMAGES) \ Referenced : Cardinality(CopiesOf(f)) = 1

\* the outputs successfully written for a class: the images copied into output/<class>
WrittenFor(c) ==
    {i \in 1..Len(events) :
        events[i].op = "copy" /\ events[i].ok /\ Under(createOutputDir(c), events[i].dst)}

\* C2: in every reachable state each class counter equals the number of
\* outputs successfully written for its class, so a step whose copy fails
\* (a walked entry that is no regular file included) leaves it unchanged.
C2_CounterCountsWritten ==
    \A c \in Classes : classCount[c] = Cardinality(WrittenFor(c))

\* C3: no two distinct source files are ever assigned the same output path.
C3_NoSharedOutputPath ==
    \A i, j \in 1..Len(events) :
        (Len(events[i].dst) > 0 /\ events[i].dst = events[j].dst)
            => events[i].src = events[j].src

YoloFile(n, ext) == Join2(createOutputDir(YOLO), Itoa(n) \o ext)

\* C4: in mode B, for every n below TotalCount both output/yolo/<n>.jpg and
\* output/yolo/<n>.txt exist and come from the same annotation, and no file
\* named by an n at or above TotalCount exists.
C4_GlobalCounterNamesPairs ==
    yolo =>
        /\ \A n \in 0..(TotalCount - 1) :
              /\ YoloFile(n, DOT_JPG) \in DOMAIN output
              /\ YoloFile(n, DOT_TXT) \in DOMAIN output
              /\ output[YoloFile(n, DOT_JPG)].ann = output[YoloFile(n, DOT_TXT)].ann
        /\ \A n \in TotalCount..(TotalCount + Len(tree)) :
              /\ YoloFile(n, DOT_JPG) \notin DOMAIN output
              /\ YoloFile(n, DOT_TXT) \notin DOMAIN output

\* C5: every I/O failure is fatal: the failed operation is the last thing the
\* run does, and the run has terminated.
C5_FailureIsFatal ==
    \A i \in 1..Len(events) :
        ~events[i].ok => (pc = "fatal" /\ i = Len(events))

\* the annotations opened so far
Opened == {events[i].src : i \in {k \in Ev("open", "labelled") : events[k].ok}}

\* C6: an annotation whose record has all fields empty aborts the run and
\* produces no output.
C6_EmptyRecordAborts ==
    \A a \in Opened :
        content[a] = EmptyRecord =>
            /\ pc = "fatal"
            /\ \A d \in DOMAIN output : output[d].ann # a

\* C10: in mode B an annotation with a resolved image one of whose six
\* geometry fields does not parse aborts: no label file and no image copy
\* are written for it (TotalCount, which names them, is then not incremented).
C10_BadGeometryAborts ==
    yolo =>
        \A a \in Opened :
            (Unparseable(content[a]) # {} /\ Len(findCorrespondingFile(content[a].Path)) > 0)
                => /\ pc = "fatal"
                   /\ \A d \in DOMAIN output : output[d].ann # a

\* ---- getClassFromPath, getIndexFromPath
Priority == <<GUN, KNIFE, WRENCH, FORK, SCREWDRIVER>>
\* the indices of gun, knife, wrench, fork, screwdriver as the claim gives them
PriorityIndex == <<2, 0, 3, 1, 4>>

\* C7: classify returns the first class in the order gun, knife, wrench,
\* fork, screwdriver whose keyword occurs in the lower-cased path, unknown
\* when none does; indexOf returns the fixed index of that class, and -1
\* exactly when classify returns unknown.
C7_FirstKeywordInPriorityOrder ==
    pc = "return" =>
        LET hits == {i \in 1..Len(Priority) : Contains(ToLower(arg), Priority[i])} IN
        /\ hits = {} => (res.class = UNKNOWN /\ res.index = -1)
        /\ \A i \in hits :
              (\A j \in hits : i <= j)
                  => (res.class = Priority[i] /\ res.index = PriorityIndex[i])
        /\ (res.index = -1) <=> (res.class = UNKNOWN)

\* C7 witness: a path with the keyword knife before the keyword gun, classified gun
C7_Witness ==
    /\ pc = "return"
    /\ \E i \in 1..Len(arg) :
          /\ Contains(ToLower(SubSeq(arg, 1, i)), KNIFE)
          /\ Contains(ToLower(SubSeq(arg, i + 1, Len(arg))), GUN)
    /\ res.class = GUN
    /\ res.index = 2

\* ---- findCorrespondingFile
\* the non-directory entries under root whose name is the base name of p, in walk order
Matches(root, p) ==
    SelectSeq(WalkDir(root),
              LAMBDA e : ~e.isDir /\ Base(e.path) = Base(ReplaceBackslashes(p)))

\* C9 as claimed: the first match in walk order under dataset/images, else the
\* first match under dataset/allimages, else empty.
C9_FirstMatch ==
    pc = "return" =>
        LET m1 == Matches(IMAGES, arg)
            m2 == Matches(ALLIMAGES, arg)
        IN  res = IF Len(m1) > 0 THEN m1[1].path
                  ELSE IF Len(m2) > 0 THEN m2[1].path ELSE <<>>

\* C9 as amended: the last match in walk order under dataset/images;
\* dataset/allimages counts only when dataset/images has no match, and again
\* its last match is returned; empty exactly when neither root has a match.
C9_LastMatch ==
    pc = "return" =>
        LET m1 == Matches(IMAGES, arg)
            m2 == Matches(ALLIMAGES, arg)
        IN  /\ res = IF Len(m1) > 0 THEN m1[Len(m1)].path
                     ELSE IF Len(m2) > 0 THEN m2[Len(m2)].path ELSE <<>>
            /\ (Len(res) = 0) <=> (Len(m1) = 0 /\ Len(m2) = 0)

\* C9 witness: two matches under dataset/images and one under
\* dataset/allimages; the second of dataset/images is returned
C9_Witness ==
    /\ pc = "return"
    /\ Len(Matches(IMAGES, arg)) = 2
    /\ Len(Matches(ALLIMAGES, arg)) > 0
    /\ res = Matches(IMAGES, arg)[2].path

\* ---- yoloLine
\* width=100, height=50, xmin=10, ymin=10, xmax=50, ymax=30
ExampleBox ==
    [Xmin |-> N10, Ymin |-> N10, Xmax |-> N50, Ymax |-> N30, Width |-> N100, Height |-> N50]

\* " 0.280000 0.380000 0.400000 0.400000"
Tail028 ==
    <<" ", "0", ".", "2", "8", "0", "0", "0", "0", " ", "0", ".", "3", "8", "0", "0", "0", "0",
      " ", "0", ".", "4", "0", "0", "0", "0", "0", " ", "0", ".", "4", "0", "0", "0", "0", "0">>

\* " 0.290000 0.380000 0.400000 0.400000"
Tail029 ==
    <<" ", "0", ".", "2", "9", "0", "0", "0", "0", " ", "0", ".", "3", "8", "0", "0", "0", "0",
      " ", "0", ".", "4", "0", "0", "0", "0", "0", " ", "0", ".", "4", "0", "0", "0", "0", "0">>

\* C8 as claimed: the example box gives "<idx> 0.280000 0.380000 0.400000 0.400000".
C8_ExampleLine028 ==
    (pc = "return" /\ arg.data = ExampleBox)
        => (~res.err /\ res.line = Itoa(arg.classIndex) \o Tail028)

\* C8 as amended: the example box gives "<idx> 0.290000 0.380000 0.400000
\* 0.400000": ((10+50)/2 - 1)/100 is 0.29.
C8_ExampleLine029 ==
    (pc = "return" /\ arg.data = ExampleBox)
        => (~res.err /\ res.line = Itoa(arg.classIndex) \o Tail029)

\* C8 witness: the example box was normalised, with class index 0
C8_Witness ==
    /\ pc = "return"
    /\ arg.data = ExampleBox
    /\ arg.classIndex = 0
    /\ Len(res.line) > 0

====
